---- MODULE Spec2Model ----
(***************************************************************************)
(* Model of the RAG embedding service (app/main.py): one process-wide      *)
(* model handle loaded by the startup event, the POST /embed handler and   *)
(* the GET /health handler.                                                *)
(*                                                                         *)
(* Environment (not part of the repository, modelled as the surroundings): *)
(*  - the ASGI lifespan: the startup event runs once; if it raises, the    *)
(*    server stops and takes no further request;                           *)
(*  - SentenceTransformer: loading a name either yields a handle or        *)
(*    raises; encode is a function of (handle, texts) unless the           *)
(*    environment is flaky, in which case it may also raise at will.       *)
(* Both handlers are coroutines without an await in their body, so each    *)
(* runs as one atomic step of the event loop; requests interleave between  *)
(* being received and being handled.                                       *)
(***************************************************************************)
EXTENDS Integers, Sequences, FiniteSets, TLC

\* ---- bounds ----
\* requests over a run, texts in one batch, texts over a run
MaxReq == 3
MaxLen == 2
MaxTexts == 2

\* ---- values ----
None == "None"
NoExc == "NoExc"
Unset == "Unset"
DefaultModelName == "sentence-transformers/all-MiniLM-L6-v2"
CustomModelName == "custom/small-model"
MissingModelName == "no/such-model"

EnvValues == {Unset, CustomModelName, MissingModelName}
Texts == {"a", "b"}
Reqs == 1..MaxReq

RECURSIVE SeqsUpTo(_)
SeqsUpTo(n) ==
    IF n = 0 THEN {<<>>}
    ELSE LET shorter == SeqsUpTo(n - 1)
         IN shorter \cup {Append(s, t) : s \in {x \in shorter : Len(x) = n - 1}, t \in Texts}

Batches == SeqsUpTo(MaxLen)

VARIABLES model, startup, MODEL_NAME, flaky, errors, req

vars == <<model, startup, MODEL_NAME, flaky, errors, req>>

\* ---- the external library, as far as the service depends on it ----

\* os.getenv("MODEL_NAME", default)
getenv(env) == IF env = Unset THEN DefaultModelName ELSE env

\* SentenceTransformer(model_name): a handle, or an exception
Loadable(name) == name \in {DefaultModelName, CustomModelName}
LoadErrorMessage == "model not found"

\* dimensionality of the vectors of a loaded model (scaled down)
Dim(h) == IF h = DefaultModelName THEN 2 ELSE 3

Code(t) == IF t = "a" THEN 1 ELSE 2

\* the embedding of one text by a loaded model
EncodeOne(h, t) == [k \in 1..Dim(h) |-> 10 * Code(t) + k]

\* inputs on which a (deterministic) model raises
Rejects(h, t) == h = CustomModelName /\ t = "b"
RejectMessage == "input rejected"
OomMessage == "out of memory"

\* the exception model.encode(texts) raises, or NoExc
EncodeRaises(h, texts, oom) ==
    IF oom THEN OomMessage
    ELSE IF \E k \in 1..Len(texts) : Rejects(h, texts[k]) THEN RejectMessage
    ELSE NoExc

\* model.encode(texts): an n x d matrix, stored row-major
encode(h, texts) ==
    LET n == Len(texts)
        d == Dim(h)
    IN [rows |-> n, cols |-> d,
        data |-> [p \in 1..(n * d) |-> EncodeOne(h, texts[((p - 1) \div d) + 1])[((p - 1) % d) + 1]]]

\* a column-major reading of the matrix
tolist_transposed(M) ==
    [r \in 1..M.rows |-> [c \in 1..M.cols |-> M.data[(c - 1) * M.rows + r]]]

\* ndarray.tolist(): the list of the matrix's rows
tolist(M) ==
    [r \in 1..M.rows |-> [c \in 1..M.cols |-> M.data[(r - 1) * M.cols + c]]]

\* ---- responses ----
NoResp == [status_code |-> 0, detail |-> "", status |-> "", embeddings |-> <<>>]

HTTPException(code, msg) ==
    [status_code |-> code, detail |-> msg, status |-> "", embeddings |-> <<>>]

EmbedResponse(embs) ==
    [status_code |-> 200, detail |-> "", status |-> "", embeddings |-> embs]

HealthResponse(s) ==
    [status_code |-> 200, detail |-> "", status |-> s, embeddings |-> <<>>]

Idle ==
    [stage |-> "idle", kind |-> "none", texts |-> <<>>, saw |-> None,
     raised |-> NoExc, calls |-> 0, resp |-> NoResp]

\* `if not model` / `if model`: a loaded SentenceTransformer is truthy
Truthy(m) == m /= None

Init ==
    /\ model = None
    /\ startup = "pending"
    /\ MODEL_NAME \in EnvValues
    /\ flaky \in BOOLEAN
    /\ errors = {}
    /\ req = [i \in Reqs |-> Idle]

\* ---- startup ----

\* a startup event that logs the failure and carries on
startup_event_swallow ==
    /\ startup = "pending"
    /\ LET model_name == getenv(MODEL_NAME)
       IN IF Loadable(model_name)
          THEN /\ model' = model_name
               /\ startup' = "done"
               /\ errors' = errors
          ELSE /\ model' = model
               /\ startup' = "done"
               /\ errors' = errors \cup {<<"Failed to load model", LoadErrorMessage>>}
    /\ UNCHANGED <<MODEL_NAME, flaky, req>>

startup_event ==
    /\ startup = "pending"
    /\ LET model_name == getenv(MODEL_NAME)
       IN IF Loadable(model_name)
          THEN /\ model' = model_name
               /\ startup' = "done"
               /\ errors' = errors
          ELSE /\ model' = model
               /\ startup' = "raised"
               /\ errors' = errors \cup {<<"Failed to load model", LoadErrorMessage>>}
    /\ UNCHANGED <<MODEL_NAME, flaky, req>>

\* ---- requests ----

\* the number of texts submitted so far
RECURSIVE Submitted(_)
Submitted(n) == IF n = 0 THEN 0 ELSE Len(req[n].texts) + Submitted(n - 1)

\* the server hands a parsed request to the application; the handlers can be
\* reached before the startup event has run (the case their readiness check
\* is for), never after it has raised. Request slots are used in order, the
\* requests being interchangeable.
Receive(i, kind, texts) ==
    /\ startup /= "raised"
    /\ req[i].stage = "idle"
    /\ i > 1 => req[i - 1].stage /= "idle"
    /\ Submitted(MaxReq) + Len(texts) <= MaxTexts
    /\ req' = [req EXCEPT ![i] = [Idle EXCEPT !.stage = "received", !.kind = kind, !.texts = texts]]
    /\ UNCHANGED <<model, startup, MODEL_NAME, flaky, errors>>

\* request i answered with r; saw, raised and calls record the handle the
\* handler read, the exception inference raised and the number of
\* model.encode calls it made
Done(i, r, exc, calls) ==
    [req EXCEPT ![i] = [@ EXCEPT !.stage = "done", !.saw = model, !.raised = exc,
                                 !.calls = calls, !.resp = r]]

\* ---- faulty variants of the embed handler ----

\* the empty check placed before the readiness check
embed_texts_emptyfirst(i) ==
    /\ startup /= "raised"
    /\ req[i].stage = "received"
    /\ req[i].kind = "embed"
    /\ IF req[i].texts = <<>>
       THEN /\ req' = Done(i, HTTPException(400, "No texts provided"), NoExc, 0)
            /\ errors' = errors
       ELSE IF ~Truthy(model)
       THEN /\ req' = Done(i, HTTPException(503, "Model not loaded"), NoExc, 0)
            /\ errors' = errors
       ELSE \E oom \in (IF flaky THEN BOOLEAN ELSE {FALSE}) :
              LET exc == EncodeRaises(model, req[i].texts, oom)
              IN IF exc = NoExc
                 THEN /\ req' = Done(i, EmbedResponse(tolist(encode(model, req[i].texts))), NoExc, 1)
                      /\ errors' = errors
                 ELSE /\ req' = Done(i, HTTPException(500, exc), exc, 1)
                      /\ errors' = errors \cup {<<"Embedding error", exc>>}
    /\ UNCHANGED <<model, startup, MODEL_NAME, flaky>>

\* the empty check left out
embed_texts_noemptycheck(i) ==
    /\ startup /= "raised"
    /\ req[i].stage = "received"
    /\ req[i].kind = "embed"
    /\ IF ~Truthy(model)
       THEN /\ req' = Done(i, HTTPException(503, "Model not loaded"), NoExc, 0)
            /\ errors' = errors
       ELSE \E oom \in (IF flaky THEN BOOLEAN ELSE {FALSE}) :
              LET exc == EncodeRaises(model, req[i].texts, oom)
              IN IF exc = NoExc
                 THEN /\ req' = Done(i, EmbedResponse(tolist(encode(model, req[i].texts))), NoExc, 1)
                      /\ errors' = errors
                 ELSE /\ req' = Done(i, HTTPException(500, exc), exc, 1)
                      /\ errors' = errors \cup {<<"Embedding error", exc>>}
    /\ UNCHANGED <<model, startup, MODEL_NAME, flaky>>

\* a failed inference call tried a second time
embed_texts_retry(i) ==
    /\ startup /= "raised"
    /\ req[i].stage = "received"
    /\ req[i].kind = "embed"
    /\ IF ~Truthy(model)
       THEN /\ req' = Done(i, HTTPException(503, "Model not loaded"), NoExc, 0)
            /\ errors' = errors
       ELSE IF req[i].texts = <<>>
       THEN /\ req' = Done(i, HTTPException(400, "No texts provided"), NoExc, 0)
            /\ errors' = errors
       ELSE \E oom \in (IF flaky THEN BOOLEAN ELSE {FALSE}) :
              LET exc == EncodeRaises(model, req[i].texts, oom)
                  again == EncodeRaises(model, req[i].texts, FALSE)
              IN IF exc = NoExc
                 THEN /\ req' = Done(i, EmbedResponse(tolist(encode(model, req[i].texts))), NoExc, 1)
                      /\ errors' = errors
                 ELSE IF again = NoExc
                 THEN /\ req' = Done(i, EmbedResponse(tolist(encode(model, req[i].texts))), NoExc, 2)
                      /\ errors' = errors
                 ELSE /\ req' = Done(i, HTTPException(500, again), again, 2)
                      /\ errors' = errors \cup {<<"Embedding error", again>>}
    /\ UNCHANGED <<model, startup, MODEL_NAME, flaky>>

\* the request body kept in a module-level variable that a later arrival overwrites
LatestTexts ==
    LET arrived == {j \in Reqs : req[j].stage /= "idle" /\ req[j].kind = "embed"}
        last == CHOOSE j \in arrived : \A k \in arrived : k <= j
    IN req[last].texts

embed_texts_shared(i) ==
    /\ startup /= "raised"
    /\ req[i].stage = "received"
    /\ req[i].kind = "embed"
    /\ IF ~Truthy(model)
       THEN /\ req' = Done(i, HTTPException(503, "Model not loaded"), NoExc, 0)
            /\ errors' = errors
       ELSE IF LatestTexts = <<>>
       THEN /\ req' = Done(i, HTTPException(400, "No texts provided"), NoExc, 0)
            /\ errors' = errors
       ELSE \E oom \in (IF flaky THEN BOOLEAN ELSE {FALSE}) :
              LET exc == EncodeRaises(model, LatestTexts, oom)
              IN IF exc = NoExc
                 THEN /\ req' = Done(i, EmbedResponse(tolist(encode(model, LatestTexts))), NoExc, 1)
                      /\ errors' = errors
                 ELSE /\ req' = Done(i, HTTPException(500, exc), exc, 1)
                      /\ errors' = errors \cup {<<"Embedding error", exc>>}
    /\ UNCHANGED <<model, startup, MODEL_NAME, flaky>>

\* the texts of earlier requests left in a buffer that is encoded again
RECURSIVE Leftover(_, _)
Leftover(i, n) ==
    IF n = 0 THEN <<>>
    ELSE Leftover(i, n - 1) \o
         (IF n /= i /\ req[n].stage = "done" /\ req[n].resp.status_code = 200
          THEN req[n].texts ELSE <<>>)

embed_texts_accumulating(i) ==
    /\ startup /= "raised"
    /\ req[i].stage = "received"
    /\ req[i].kind = "embed"
    /\ IF ~Truthy(model)
       THEN /\ req' = Done(i, HTTPException(503, "Model not loaded"), NoExc, 0)
            /\ errors' = errors
       ELSE IF req[i].texts = <<>>
       THEN /\ req' = Done(i, HTTPException(400, "No texts provided"), NoExc, 0)
            /\ errors' = errors
       ELSE \E oom \in (IF flaky THEN BOOLEAN ELSE {FALSE}) :
              LET buffer == Leftover(i, MaxReq) \o req[i].texts
                  exc == EncodeRaises(model, buffer, oom)
              IN IF exc = NoExc
                 THEN /\ req' = Done(i, EmbedResponse(tolist(encode(model, buffer))), NoExc, 1)
                      /\ errors' = errors
                 ELSE /\ req' = Done(i, HTTPException(500, exc), exc, 1)
                      /\ errors' = errors \cup {<<"Embedding error", exc>>}
    /\ UNCHANGED <<model, startup, MODEL_NAME, flaky>>

\* the handle dropped when inference fails
embed_texts_reset(i) ==
    /\ startup /= "raised"
    /\ req[i].stage = "received"
    /\ req[i].kind = "embed"
    /\ IF ~Truthy(model)
       THEN /\ req' = Done(i, HTTPException(503, "Model not loaded"), NoExc, 0)
            /\ errors' = errors
            /\ model' = model
       ELSE IF req[i].texts = <<>>
       THEN /\ req' = Done(i, HTTPException(400, "No texts provided"), NoExc, 0)
            /\ errors' = errors
            /\ model' = model
       ELSE \E oom \in (IF flaky THEN BOOLEAN ELSE {FALSE}) :
              LET exc == EncodeRaises(model, req[i].texts, oom)
              IN IF exc = NoExc
                 THEN /\ req' = Done(i, EmbedResponse(tolist(encode(model, req[i].texts))), NoExc, 1)
                      /\ errors' = errors
                      /\ model' = model
                 ELSE /\ req' = Done(i, HTTPException(500, exc), exc, 1)
                      /\ errors' = errors \cup {<<"Embedding error", exc>>}
                      /\ model' = None
    /\ UNCHANGED <<startup, MODEL_NAME, flaky>>

\* ---- POST /embed ----
embed_texts(i) ==
    /\ startup /= "raised"
    /\ req[i].stage = "received"
    /\ req[i].kind = "embed"
    /\ IF ~Truthy(model)
       THEN /\ req' = Done(i, HTTPException(503, "Model not loaded"), NoExc, 0)
            /\ errors' = errors
       ELSE IF req[i].texts = <<>>
       THEN /\ req' = Done(i, HTTPException(400, "No texts provided"), NoExc, 0)
            /\ errors' = errors
       ELSE \E oom \in (IF flaky THEN BOOLEAN ELSE {FALSE}) :
              LET exc == EncodeRaises(model, req[i].texts, oom)
              IN IF exc = NoExc
                 THEN /\ req' = Done(i, EmbedResponse(tolist(encode(model, req[i].texts))), NoExc, 1)
                      /\ errors' = errors
                 ELSE /\ req' = Done(i, HTTPException(500, exc), exc, 1)
                      /\ errors' = errors \cup {<<"Embedding error", exc>>}
    /\ UNCHANGED <<model, startup, MODEL_NAME, flaky>>

\* ---- faulty variants of the health handler ----

\* a probe that does not look at the handle
health_check_always(i) ==
    /\ startup /= "raised"
    /\ req[i].stage = "received"
    /\ req[i].kind = "health"
    /\ req' = Done(i, HealthResponse("healthy"), NoExc, 0)
    /\ UNCHANGED <<model, startup, MODEL_NAME, flaky, errors>>

\* a probe that loads the model when it finds none
health_check_lazy(i) ==
    /\ startup /= "raised"
    /\ req[i].stage = "received"
    /\ req[i].kind = "health"
    /\ IF Truthy(model)
       THEN /\ req' = Done(i, HealthResponse("healthy"), NoExc, 0)
            /\ model' = model
       ELSE /\ req' = Done(i, HTTPException(503, "Model not loaded"), NoExc, 0)
            /\ model' = IF Loadable(getenv(MODEL_NAME)) THEN getenv(MODEL_NAME) ELSE model
    /\ UNCHANGED <<startup, MODEL_NAME, flaky, errors>>

\* ---- GET /health ----
health_check(i) ==
    /\ startup /= "raised"
    /\ req[i].stage = "received"
    /\ req[i].kind = "health"
    /\ IF Truthy(model)
       THEN req' = Done(i, HealthResponse("healthy"), NoExc, 0)
       ELSE req' = Done(i, HTTPException(503, "Model not loaded"), NoExc, 0)
    /\ UNCHANGED <<model, startup, MODEL_NAME, flaky, errors>>

Next ==
    \/ startup_event
    \/ \E i \in Reqs, texts \in Batches : Receive(i, "embed", texts)
    \/ \E i \in Reqs : Receive(i, "health", <<>>)
    \/ \E i \in Reqs : embed_texts(i)
    \/ \E i \in Reqs : health_check(i)

Spec == Init /\ [][Next]_vars

\* ---- properties ----

IsDone(i) == req[i].stage = "done"
DoneEmbed(i) == IsDone(i) /\ req[i].kind = "embed"
DoneHealth(i) == IsDone(i) /\ req[i].kind = "health"
NotLoaded == HTTPException(503, "Model not loaded")
NoTexts == HTTPException(400, "No texts provided")

\* C1: the readiness check of embed comes first: an embed request handled
\* while the handle is not loaded is answered 503 "Model not loaded" whatever
\* its texts (the empty sequence included), and a 400 is only ever given by a
\* handler that found the model loaded.
C1_ReadinessCheckedFirst ==
    \A i \in Reqs : DoneEmbed(i) =>
        /\ req[i].saw = None => req[i].resp = NotLoaded
        /\ req[i].resp.status_code = 400 => req[i].saw /= None

C1_Witness ==
    \E i, j \in Reqs :
        /\ DoneEmbed(i) /\ req[i].saw = None /\ req[i].texts = <<>>
        /\ DoneEmbed(j) /\ req[j].saw = None /\ req[j].texts /= <<>>
        /\ req[i].resp.status_code = 503 /\ req[j].resp.status_code = 503

\* C2 (as stated): embed([]) is answered 400 "No texts provided" whether or
\* not the model handle is loaded.
C2_EmptyAlways400 ==
    \A i \in Reqs : DoneEmbed(i) /\ req[i].texts = <<>> => req[i].resp = NoTexts

\* C2 (amended): embed([]) is answered 400 "No texts provided" whenever the
\* model handle is loaded, and 503 "Model not loaded" when it is not.
C2_EmptyIs400WhenLoaded ==
    \A i \in Reqs : DoneEmbed(i) /\ req[i].texts = <<>> =>
        req[i].resp = (IF req[i].saw /= None THEN NoTexts ELSE NotLoaded)

C2_Witness ==
    \E i, j \in Reqs :
        /\ DoneEmbed(i) /\ req[i].texts = <<>> /\ req[i].saw /= None
        /\ req[i].resp.status_code = 400
        /\ DoneEmbed(j) /\ req[j].texts = <<>> /\ req[j].saw = None

\* C3: a non-empty batch of n texts handled with the model loaded and no
\* exception from inference is answered 200 with exactly n vectors, the k-th
\* being the model's embedding of the k-th text, all of one dimensionality.
C3_OneVectorPerTextInOrder ==
    \A i \in Reqs :
        DoneEmbed(i) /\ req[i].saw /= None /\ req[i].texts /= <<>> /\ req[i].raised = NoExc =>
            LET e == req[i].resp.embeddings
            IN /\ req[i].resp.status_code = 200
               /\ Len(e) = Len(req[i].texts)
               /\ \A k \in 1..Len(e) : e[k] = EncodeOne(req[i].saw, req[i].texts[k])
               /\ \A k \in 1..Len(e) : Len(e[k]) = Len(e[1])

C3_Witness ==
    \E i \in Reqs :
        /\ DoneEmbed(i) /\ req[i].resp.status_code = 200
        /\ Len(req[i].texts) = 2 /\ req[i].texts[1] /= req[i].texts[2]
        /\ Len(req[i].resp.embeddings) = 2

\* the step in which request i is answered
Answers(i) == req[i].stage = "received" /\ req'[i].stage = "done"

\* C4: health answers 200 "healthy" exactly when the handle is loaded and
\* 503 "Model not loaded" otherwise, and the step that answers it changes
\* nothing but that request's own record.
C4_HealthIffLoaded ==
    /\ [](\A i \in Reqs : DoneHealth(i) =>
            /\ req[i].resp.status = "healthy" <=> req[i].saw /= None
            /\ req[i].resp = (IF req[i].saw /= None THEN HealthResponse("healthy") ELSE NotLoaded)
            /\ req[i].calls = 0)
    /\ [][\A i \in Reqs : req[i].kind = "health" /\ Answers(i) =>
            /\ UNCHANGED <<model, startup, MODEL_NAME, flaky, errors>>
            /\ \A j \in Reqs \ {i} : req'[j] = req[j]]_vars

C4_Witness ==
    \E i, j \in Reqs :
        /\ DoneHealth(i) /\ req[i].resp.status_code = 200 /\ req[i].saw /= None
        /\ DoneHealth(j) /\ req[j].resp.status_code = 503 /\ req[j].saw = None

\* C5: a failed load is logged and re-raised: startup ends raised with the
\* handle unset, nothing is received or answered afterwards, and the service
\* is never running (startup done) without a handle.
C5_FailFast ==
    /\ [](startup = "raised" =>
            /\ model = None
            /\ <<"Failed to load model", LoadErrorMessage>> \in errors)
    /\ [](startup = "done" => model /= None)
    /\ [][startup = "raised" => UNCHANGED <<startup, model, req>>]_vars

C5_Witness ==
    /\ startup = "raised"
    /\ \E i \in Reqs : req[i].stage = "received"

\* C6: with the model loaded and a non-empty batch, inference is called
\* exactly once; an exception it raises gives 500 with the exception's
\* message as detail and no embeddings, otherwise all embeddings are
\* returned.
C6_InferenceErrorIs500 ==
    \A i \in Reqs :
        DoneEmbed(i) /\ req[i].saw /= None /\ req[i].texts /= <<>> =>
            /\ req[i].calls = 1
            /\ IF req[i].raised /= NoExc
               THEN /\ req[i].resp = HTTPException(500, req[i].raised)
                    /\ <<"Embedding error", req[i].raised>> \in errors
               ELSE /\ req[i].resp.status_code = 200
                    /\ Len(req[i].resp.embeddings) = Len(req[i].texts)

C6_Witness ==
    \E i, j \in Reqs :
        /\ DoneEmbed(i) /\ req[i].resp = HTTPException(500, OomMessage)
        /\ DoneEmbed(j) /\ req[j].resp = HTTPException(500, RejectMessage)

\* C7: the handle changes only in the startup step, from unset to loaded,
\* and never again; every step that receives or answers a request leaves it
\* as it was.
C7_HandleAssignedOnce ==
    [][/\ model' /= model =>
            model = None /\ startup = "pending" /\ startup' = "done" /\ req' = req
       /\ req' /= req => model' = model]_vars

C7_Witness ==
    /\ model /= None
    /\ \E i, j, k \in Reqs :
        /\ IsDone(i) /\ req[i].resp.status_code = 503
        /\ IsDone(j) /\ req[j].resp.status_code = 500
        /\ IsDone(k) /\ req[k].resp.status_code = 200

\* C8: requests do not interfere: a step changes at most one request's
\* record, a request's kind and texts never change once received, its
\* response never changes once given, and two requests with the same input
\* handled under the same handle and the same behaviour of the library get
\* the same response, whatever else was in flight.
C8_RequestsIsolated ==
    /\ [](\A i, j \in Reqs :
            /\ IsDone(i) /\ IsDone(j)
            /\ req[i].kind = req[j].kind /\ req[i].texts = req[j].texts
            /\ req[i].saw = req[j].saw /\ req[i].raised = req[j].raised
            => req[i].resp = req[j].resp)
    /\ [][\A i \in Reqs : req'[i] /= req[i] =>
            /\ \A j \in Reqs \ {i} : req'[j] = req[j]
            /\ req[i].stage /= "done"
            /\ req[i].stage = "received" =>
                 req'[i].kind = req[i].kind /\ req'[i].texts = req[i].texts]_vars

C8_Witness ==
    \E i, j, k \in Reqs :
        /\ i /= j
        /\ DoneEmbed(i) /\ DoneEmbed(j) /\ req[i].texts = req[j].texts
        /\ req[i].resp.status_code = 200 /\ req[j].resp.status_code = 200
        /\ req[k].kind = "embed" /\ req[k].texts /= req[i].texts
        /\ i < k /\ k < j

\* C9: with a deterministic model, two embed calls with the same texts in
\* the same readiness state get the same response.
C9_SameInputSameOutput ==
    ~flaky =>
        \A i, j \in Reqs :
            /\ DoneEmbed(i) /\ DoneEmbed(j)
            /\ req[i].texts = req[j].texts
            /\ (req[i].saw = None) = (req[j].saw = None)
            => req[i].resp = req[j].resp

C9_Witness ==
    /\ ~flaky
    /\ DoneEmbed(1) /\ DoneEmbed(3) /\ IsDone(2)
    /\ req[1].texts = req[3].texts /\ req[1].texts /= <<>>
    /\ req[1].saw /= None /\ req[3].saw /= None
    /\ req[2].kind = "health" \/ req[2].texts /= req[1].texts

\* C10: a loaded handle stays loaded, and once some request has been
\* answered 200 no request is answered 503 any more.
C10_ReadinessMonotonic ==
    [][/\ model /= None => model' = model
       /\ (\E j \in Reqs : IsDone(j) /\ req[j].resp.status_code = 200) =>
            \A i \in Reqs : req'[i] /= req[i] => req'[i].resp.status_code /= 503]_vars

C10_Witness ==
    \E i, j, k \in Reqs :
        /\ DoneHealth(i) /\ req[i].resp.status_code = 200
        /\ DoneEmbed(j) /\ req[j].resp.status_code = 200
        /\ IsDone(k) /\ req[k].resp.status_code = 500

====
